---- MODULE Spec2Model ----
(***************************************************************************)
(* Jump-triggered sound player (purnching_music_program.ino).              *)
(*                                                                         *)
(* loop() calls JumpSoundSystem::update() for ever.  One iteration polls   *)
(* the accelerometer (AccelerometerManager::detectJump), and on a jump     *)
(* event maps the peak to a scale index (calculateScaleIndex), streams the *)
(* WAV file of that note to the audio player (AudioManager::playSound /    *)
(* playWavFile), prints the peak, resets it, and then delays 100 ms.       *)
(***************************************************************************)
EXTENDS Integers, Sequences, FiniteSets, TLC

(***************************************************************************)
(* Program constants (namespace Constants).                                *)
(***************************************************************************)
JUMP_THRESHOLD == 80
MIN_ACCELERATION == 80
MAX_ACCELERATION == 400
JUMP_COOLDOWN == 500
BUFFER_SIZE == 1024
SCALE_SIZE == 8
DELAY_MS == 100

(***************************************************************************)
(* Bounds of the model.                                                    *)
(***************************************************************************)
\* polls of the accelerometer in one run of the control loop
MaxPolls == 5
\* largest payload, in whole buffers, of a WAV file on the card
MaxChunks == 5
\* the peaks MinPeakInput..MaxPeakInput (and the two ends of the int16 range)
\* are fed to calculateScaleIndex
MinPeakInput == 70
MaxPeakInput == 410

(***************************************************************************)
(* Machine integers.                                                       *)
(***************************************************************************)
INT16_MIN == -32768
INT16_MAX == 32767
TwoPow16 == 65536

\* conversion of an int to int16_t (two's complement, as gcc defines it)
ToInt16(x) == ((x + 32768) % TwoPow16) - 32768

\* An unsigned long / uint32_t is held as the 32-bit two's complement integer
\* with the same bits: 0 .. 2^31-1 are themselves, 2^31 .. 2^32-1 are negative.
\* Addition and subtraction modulo 2^32 are then integer addition and
\* subtraction (TLC stops with an error if a result leaves 32 bits).
Add32(a, b) == a + b
Sub32(a, b) == a - b

\* a > b on unsigned 32-bit values
Gt32(a, b) == IF (a < 0) = (b < 0) THEN a > b ELSE a < 0

\* C integer division, truncating toward zero (d > 0)
TruncDiv(n, d) == IF n >= 0 THEN n \div d ELSE -((-n) \div d)

\* mutant: the abs() call left out
abs16_Missing(r) == ToInt16(r)

\* z = abs(z): the operand is promoted to int, the result stored in int16_t
abs16(r) == ToInt16(IF r > 0 THEN r ELSE -r)

(***************************************************************************)
(* Inputs of the environment.                                              *)
(***************************************************************************)
\* raw readings of the Z axis register pair (readAxis returns int16_t)
RawReadings == {INT16_MIN, -150, 50, 80, 120, INT16_MAX}

\* millis() at the first poll: setup() has run for an unknown time
StartTimes == {0, 600}

\* time from one poll to the next: delay(100) plus the time the iteration took
Ticks == {DELAY_MS, DELAY_MS + 300, DELAY_MS + 301}

\* peaks handed to calculateScaleIndex when it is exercised on its own
PeakInputs == (MinPeakInput .. MaxPeakInput) \cup {INT16_MIN, INT16_MAX}

\* scale_index values playSound is called with when it is exercised on its own
IndexInputs == -1 .. SCALE_SIZE

\* a WAV file as playWavFile sees it: data_size from the header, and the
\* bytes the file really holds from data_offset to its end
PartialBytes == 476
DataSizes == {0, BUFFER_SIZE + PartialBytes, MaxChunks * BUFFER_SIZE}
Layouts ==
    {<<s, s>> : s \in DataSizes}
        \cup {<<BUFFER_SIZE + PartialBytes, 2 * BUFFER_SIZE + 100>>,
              <<MaxChunks * BUFFER_SIZE, 3 * BUFFER_SIZE>>}

\* "no value": outside every range used below
NoIndex == INT16_MIN - 1

VARIABLES
    \* ---- JumpSoundSystem::update
    pc,                 \* where the control loop stands
    clock,              \* millis()
    emitted,            \* what the last detectJump returned
    scale_index,        \* update's local scale_index
    \* ---- AccelerometerManager
    raw,                \* what readAxis returned at the last poll
    z,                  \* detectJump's local z at the last poll
    is_jumping,
    peak_acceleration,
    last_jump_time,
    \* ---- AudioManager::playSound / playWavFile
    data_size,          \* handle->data_size
    avail,              \* bytes the file holds from handle->data_offset on
    fpos,               \* read position of file, relative to data_offset
    remain_size,
    supply_size,
    outcome,            \* how the play invocation ended (its log line, or "Completed")
    devlog,             \* calls made on the audio player during the invocation
    stolog,             \* parser and SD card operations during the invocation
    written,            \* <<position, size>> of each chunk handed to writeFrames
    \* ---- what an observer of the run records
    polls,              \* number of detectJump calls so far
    events,             \* <<poll number, millis()>> of every jump event
    reports,            \* the peaks printed on Serial
    script,             \* readings a scripted sensor still has to deliver
    poll_log,           \* <<z, millis()>> of the polls a scripted sensor served
    low_since_event,    \* a poll since the last jump event had z below the threshold
    other_peak,         \* a second input of calculateScaleIndex, for comparison
    other_index

vars == <<pc, clock, emitted, scale_index, raw, z, is_jumping, peak_acceleration,
          last_jump_time, data_size, avail, fpos, remain_size, supply_size,
          outcome, devlog, stolog, written, polls, events, reports, script,
          poll_log, low_since_event, other_peak, other_index>>

detectorVars == <<raw, z, is_jumping, peak_acceleration, last_jump_time>>
fileVars == <<data_size, avail, fpos, remain_size, supply_size>>
audioVars == <<data_size, avail, fpos, remain_size, supply_size, outcome,
               devlog, stolog, written>>
observerVars == <<polls, events, reports, script, poll_log, low_since_event>>
compareVars == <<other_peak, other_index>>

(***************************************************************************)
(* AccelerometerManager::detectJump                                        *)
(***************************************************************************)
\* mutant: the cooldown test left out of the jump-start condition
TriggerCond_NoCooldown(zz, jumping, now, last) ==
    zz > JUMP_THRESHOLD /\ ~jumping

\* mutant: >= instead of > against the threshold
TriggerCond_AtThreshold(zz, jumping, now, last) ==
    zz >= JUMP_THRESHOLD /\ ~jumping /\ Gt32(Sub32(now, last), JUMP_COOLDOWN)

\* mutant: the !is_jumping test left out
TriggerCond_NoIdleCheck(zz, jumping, now, last) ==
    zz > JUMP_THRESHOLD /\ Gt32(Sub32(now, last), JUMP_COOLDOWN)

\* mutant: >= instead of > against the cooldown
TriggerCond_GeCooldown(zz, jumping, now, last) ==
    zz > JUMP_THRESHOLD /\ ~jumping /\ ~Gt32(JUMP_COOLDOWN, Sub32(now, last))

\* line 55: the jump-start condition
TriggerCond(zz, jumping, now, last) ==
    zz > JUMP_THRESHOLD /\ ~jumping /\ Gt32(Sub32(now, last), JUMP_COOLDOWN)

\* mutant: <= instead of < against the threshold
LandCond_AtThreshold(zz, jumping) == zz <= JUMP_THRESHOLD /\ jumping

\* lines 63-66: landing
LandCond(zz, jumping) == zz < JUMP_THRESHOLD /\ jumping

\* is_jumping when detectJump returns false
JumpingAfter(zz, jumping) == IF LandCond(zz, jumping) THEN FALSE ELSE jumping

\* mutant: the peak follows the latest sample instead of the largest
PeakAfter_Latest(zz, jumping, peak) ==
    IF zz < JUMP_THRESHOLD /\ jumping THEN 0 ELSE IF jumping THEN zz ELSE peak

\* mutant: the peak is not cleared on landing
PeakAfter_NoClear(zz, jumping, peak) ==
    IF JumpingAfter(zz, jumping) /\ zz > peak THEN zz ELSE peak

\* peak_acceleration when detectJump returns false (lines 63-71)
PeakAfter(zz, jumping, peak) ==
    LET p == IF LandCond(zz, jumping) THEN 0 ELSE peak
    IN  IF JumpingAfter(zz, jumping) /\ zz > p THEN zz ELSE p

\* one call of detectJump on raw reading r, at millis() = clock
DetectJumpOn(r) ==
    /\ pc = "poll"
    /\ polls < MaxPolls
    /\ polls' = polls + 1
    /\ raw' = r
    /\ z' = abs16(r)
    /\ IF TriggerCond(z', is_jumping, clock, last_jump_time)
       THEN /\ is_jumping' = TRUE
            /\ peak_acceleration' = z'
            /\ last_jump_time' = clock
            /\ emitted' = TRUE
            /\ events' = Append(events, <<polls', clock>>)
            /\ low_since_event' = FALSE
            /\ pc' = "map"
       ELSE /\ is_jumping' = JumpingAfter(z', is_jumping)
            /\ peak_acceleration' = PeakAfter(z', is_jumping, peak_acceleration)
            /\ last_jump_time' = last_jump_time
            /\ emitted' = FALSE
            /\ events' = events
            /\ low_since_event' =
                   (low_since_event \/ (events # <<>> /\ z' < JUMP_THRESHOLD))
            /\ pc' = "delay"
    /\ UNCHANGED <<clock, scale_index, audioVars, reports, compareVars>>

\* the sensor delivers any reading
DetectJump ==
    /\ script = <<>>
    /\ \E r \in RawReadings : DetectJumpOn(r)
    /\ UNCHANGED <<script, poll_log>>

\* the sensor delivers the next reading of a fixed script
ScriptedDetectJump ==
    /\ script # <<>>
    /\ DetectJumpOn(Head(script))
    /\ script' = Tail(script)
    /\ poll_log' = Append(poll_log, <<z', clock>>)

(***************************************************************************)
(* JumpSoundSystem::calculateScaleIndex                                    *)
(***************************************************************************)
\* mutant: the upper limit is not applied
constrain_NoUpper(amt, low, high) == IF amt < low THEN low ELSE amt

\* mutant: the limits taken in the wrong order
constrain_Swapped(amt, low, high) ==
    IF amt < high THEN high ELSE IF amt > low THEN low ELSE amt

\* Arduino constrain(amt, low, high)
constrain(amt, low, high) ==
    IF amt < low THEN low ELSE IF amt > high THEN high ELSE amt

\* mutant: the input range counted as in_max - in_min + 1
ArduinoMap_OffByOne(x, in_min, in_max, out_min, out_max) ==
    TruncDiv((x - in_min) * (out_max - out_min), in_max - in_min + 1) + out_min

\* Arduino map(x, in_min, in_max, out_min, out_max), in long arithmetic
ArduinoMap(x, in_min, in_max, out_min, out_max) ==
    TruncDiv((x - in_min) * (out_max - out_min), in_max - in_min) + out_min

\* the long is stored in a float and rounded: an integer stays what it is
calculateScaleIndex(acceleration) ==
    ArduinoMap(constrain(acceleration, MIN_ACCELERATION, MAX_ACCELERATION),
               MIN_ACCELERATION, MAX_ACCELERATION, 0, SCALE_SIZE - 1)

\* line 232
CalculateIndex ==
    /\ pc = "map"
    /\ scale_index' = calculateScaleIndex(peak_acceleration)
    /\ pc' = "play"
    /\ UNCHANGED <<clock, emitted, detectorVars, audioVars, observerVars,
                   compareVars>>

\* calculateScaleIndex on the second input, before the first
CompareIndex ==
    /\ pc = "compare"
    /\ other_index' = calculateScaleIndex(other_peak)
    /\ pc' = "map"
    /\ UNCHANGED <<clock, emitted, scale_index, detectorVars, audioVars,
                   observerVars, other_peak>>

(***************************************************************************)
(* AudioManager::playSound and playWavFile                                 *)
(***************************************************************************)
\* line 149
InvalidIndex(i) == i < 0 \/ i >= SCALE_SIZE

\* mutant: the reset stops the player and does not start it again
resetAudioPlayer_StopOnly == <<"stop">>

\* resetAudioPlayer (lines 141-145): the calls it makes on the player
resetAudioPlayer == <<"stop", "start">>

\* lines 148-152: playSound resets the player, then validates scale_index
PlayEnter ==
    /\ pc = "play"
    /\ devlog' = resetAudioPlayer
    /\ stolog' = <<>>
    /\ written' = <<>>
    /\ IF InvalidIndex(scale_index)
       THEN outcome' = "InvalidIndex" /\ pc' = "report"
       ELSE outcome' = "none" /\ pc' = "parse"
    /\ UNCHANGED <<clock, emitted, scale_index, detectorVars, fileVars,
                   observerVars, compareVars>>

\* lines 158-166: parser.parseChunk fails, or yields the header of some file
ParseChunk ==
    /\ pc = "parse"
    /\ stolog' = Append(stolog, "parse")
    /\ \/ /\ outcome' = "ParseError"
          /\ pc' = "report"
          /\ UNCHANGED <<data_size, avail>>
       \/ /\ \E f \in Layouts : data_size' = f[1] /\ avail' = f[2]
          /\ pc' = "open"
          /\ UNCHANGED outcome
    /\ UNCHANGED <<clock, emitted, scale_index, detectorVars, fpos, remain_size,
                   supply_size, devlog, written, observerVars, compareVars>>

\* mutant: the return after "File open error" left out
OpenFile_NoReturn ==
    /\ pc = "open"
    /\ stolog' = Append(stolog, "open")
    /\ \/ outcome' = "OpenError" /\ pc' = "begin"
       \/ outcome' = outcome /\ pc' = "begin"
    /\ UNCHANGED <<clock, emitted, scale_index, detectorVars, fileVars, devlog,
                   written, observerVars, compareVars>>

\* lines 168-172: sd.open
OpenFile ==
    /\ pc = "open"
    /\ stolog' = Append(stolog, "open")
    /\ \/ outcome' = "OpenError" /\ pc' = "report"
       \/ outcome' = outcome /\ pc' = "begin"
    /\ UNCHANGED <<clock, emitted, scale_index, detectorVars, fileVars, devlog,
                   written, observerVars, compareVars>>

\* lines 181-184: seek, remain_size = data_size, stopPlayer
PlayWavBegin ==
    /\ pc = "begin"
    /\ stolog' = Append(stolog, "seek")
    /\ fpos' = 0
    /\ remain_size' = data_size
    /\ devlog' = Append(devlog, "stop")
    /\ pc' = "loop"
    /\ UNCHANGED <<clock, emitted, scale_index, detectorVars, data_size, avail,
                   supply_size, outcome, written, observerVars, compareVars>>

\* mutant: at the end of the file the read does not return
ReadResults_Blocking(left) ==
    IF left > 0 THEN {0, IF left < BUFFER_SIZE THEN left ELSE BUFFER_SIZE} ELSE {}

\* file.read(buffer, sizeof(buffer)): a full buffer, or what is left of the
\* file, or nothing (end of file, or an error)
ReadResults(left) ==
    {0} \cup (IF left > 0
                 THEN {IF left < BUFFER_SIZE THEN left ELSE BUFFER_SIZE}
                 ELSE {})

\* lines 186-194: one read of the streaming loop
ReadChunk ==
    /\ pc = "loop"
    /\ Gt32(remain_size, 0)
    /\ stolog' = Append(stolog, "read")
    /\ \E n \in ReadResults(avail - fpos) :
          /\ supply_size' = n
          /\ fpos' = fpos + n
          /\ IF n = 0
             THEN /\ outcome' = "ReadError"
                  /\ pc' = "finish"
                  /\ UNCHANGED remain_size
             ELSE /\ remain_size' = Sub32(remain_size, n)
                  /\ pc' = "write"
                  /\ UNCHANGED outcome
    /\ UNCHANGED <<clock, emitted, scale_index, detectorVars, data_size, avail,
                   devlog, written, observerVars, compareVars>>

\* mutant: the break after a failed writeFrames left out
WriteFrames_NoBreak ==
    /\ pc = "write"
    /\ devlog' = Append(devlog, "write")
    /\ \E ok \in BOOLEAN :
          /\ written' = Append(written, <<fpos - supply_size, supply_size, ok>>)
          /\ outcome' = (IF ok THEN outcome ELSE "WriteError")
          /\ pc' = "loop"
    /\ UNCHANGED <<clock, emitted, scale_index, detectorVars, fileVars, stolog,
                   observerVars, compareVars>>

\* lines 195-201: writeFrames succeeds or reports an error
WriteFrames ==
    /\ pc = "write"
    /\ devlog' = Append(devlog, "write")
    /\ \E ok \in BOOLEAN :
          /\ written' = Append(written, <<fpos - supply_size, supply_size, ok>>)
          /\ IF ok
             THEN outcome' = outcome /\ pc' = "loop"
             ELSE outcome' = "WriteError" /\ pc' = "finish"
    /\ UNCHANGED <<clock, emitted, scale_index, detectorVars, fileVars, stolog,
                   observerVars, compareVars>>

\* line 186: the loop ends when nothing remains
LoopExit ==
    /\ pc = "loop"
    /\ ~Gt32(remain_size, 0)
    /\ outcome' = "Completed"
    /\ pc' = "finish"
    /\ UNCHANGED <<clock, emitted, scale_index, detectorVars, fileVars, devlog,
                   stolog, written, observerVars, compareVars>>

\* lines 204-205 and 175: startPlayer, file.close, return to update
FinishPlay ==
    /\ pc = "finish"
    /\ devlog' = Append(devlog, "start")
    /\ stolog' = Append(stolog, "close")
    /\ pc' = "report"
    /\ UNCHANGED <<clock, emitted, scale_index, detectorVars, fileVars, outcome,
                   written, observerVars, compareVars>>

(***************************************************************************)
(* JumpSoundSystem::update, after playSound                                *)
(***************************************************************************)
\* resetPeakAcceleration (lines 80-82)
resetPeakAcceleration == 0

\* lines 235-238: print the peak, then reset it; playSound's locals are gone
ReportAndReset ==
    /\ pc = "report"
    /\ reports' = Append(reports, peak_acceleration)
    /\ peak_acceleration' = resetPeakAcceleration
    /\ scale_index' = NoIndex
    /\ data_size' = 0 /\ avail' = 0 /\ fpos' = 0
    /\ remain_size' = 0 /\ supply_size' = 0
    /\ outcome' = "none"
    /\ devlog' = <<>> /\ stolog' = <<>> /\ written' = <<>>
    /\ pc' = "delay"
    /\ UNCHANGED <<clock, emitted, raw, z, is_jumping, last_jump_time, polls,
                   events, script, poll_log, low_since_event, compareVars>>

\* line 240 and the return to loop(): the next poll is at least 100 ms later
Delay ==
    /\ pc = "delay"
    /\ polls < MaxPolls
    /\ \E d \in Ticks : clock' = Add32(clock, d)
    /\ emitted' = FALSE
    /\ raw' = 0
    /\ z' = 0
    /\ pc' = "poll"
    /\ UNCHANGED <<scale_index, is_jumping, peak_acceleration, last_jump_time,
                   audioVars, observerVars, compareVars>>

(***************************************************************************)
(* Specifications                                                          *)
(***************************************************************************)
\* AccelerometerManager as constructed (lines 38-40)
Constructed ==
    /\ is_jumping = FALSE
    /\ peak_acceleration = 0
    /\ last_jump_time = 0

\* nothing polled, played or recorded yet
Fresh ==
    /\ emitted = FALSE
    /\ raw = 0
    /\ z = 0
    /\ data_size = 0 /\ avail = 0 /\ fpos = 0
    /\ remain_size = 0 /\ supply_size = 0
    /\ outcome = "none"
    /\ devlog = <<>> /\ stolog = <<>> /\ written = <<>>
    /\ polls = 0
    /\ events = <<>>
    /\ reports = <<>>
    /\ poll_log = <<>>
    /\ low_since_event = FALSE
    /\ other_index = NoIndex

\* the control loop, the sensor delivering any reading
Init ==
    /\ Constructed
    /\ Fresh
    /\ pc = "poll"
    /\ scale_index = NoIndex
    /\ clock \in StartTimes
    /\ script = <<>>
    /\ other_peak = NoIndex

PlaySound ==
    \/ PlayEnter
    \/ ParseChunk
    \/ OpenFile
    \/ PlayWavBegin
    \/ ReadChunk
    \/ WriteFrames
    \/ LoopExit
    \/ FinishPlay

Next ==
    \/ DetectJump
    \/ CalculateIndex
    \/ PlaySound
    \/ ReportAndReset
    \/ Delay

Spec == Init /\ [][Next]_vars

\* loop() is called again and again and every call it makes returns: the one
\* thread of the program always takes its next step
FairSpec == Init /\ [][Next]_vars /\ WF_vars(Next)

\* the control loop fed the readings of a test script: the magnitudes
\* 50, 50, 120, 150, 60, each with either sign
Signed(m) == {m, -m}
ScenarioScripts ==
    {<<a, b, c, d, e>> : a \in {50}, b \in Signed(50), c \in Signed(120),
                         d \in Signed(150), e \in Signed(60)}

ScenarioInit ==
    /\ Constructed
    /\ Fresh
    /\ pc = "poll"
    /\ scale_index = NoIndex
    /\ clock \in StartTimes
    /\ script \in ScenarioScripts
    /\ other_peak = NoIndex

ScenarioNext ==
    \/ ScriptedDetectJump
    \/ CalculateIndex
    \/ PlaySound
    \/ ReportAndReset
    \/ Delay

ScenarioSpec == ScenarioInit /\ [][ScenarioNext]_vars

\* update's handling of a jump event, for any peak detectJump could leave in
\* peak_acceleration, up to the validation of the index in playSound; a
\* second peak, not smaller, is mapped for comparison
MapInit ==
    /\ Fresh
    /\ pc = "compare"
    /\ clock = 0
    /\ script = <<>>
    /\ \E p \in PeakInputs, q \in PeakInputs :
          /\ p <= q
          /\ peak_acceleration = p
          /\ other_peak = q
    /\ is_jumping = TRUE
    /\ last_jump_time = 0
    /\ scale_index = NoIndex

MapNext ==
    \/ CompareIndex
    \/ CalculateIndex
    \/ PlayEnter

MapSpec == MapInit /\ [][MapNext]_vars

\* one call of the public playSound, with any scale_index
PlayInit ==
    /\ Constructed
    /\ Fresh
    /\ pc = "play"
    /\ clock = 0
    /\ script = <<>>
    /\ other_peak = NoIndex
    /\ \E i \in IndexInputs : scale_index = i

PlaySpec == PlayInit /\ [][PlaySound]_vars

(***************************************************************************)
(* Properties                                                              *)
(***************************************************************************)
CountOf(seq, x) == Cardinality({i \in DOMAIN seq : seq[i] = x})
Last(seq) == seq[Len(seq)]

\* C1: any two polls on which detectJump returns true have millis() times
\* that differ by at least JUMP_COOLDOWN.
C1_CooldownBetweenEvents ==
    \A i, j \in DOMAIN events :
        i < j => events[j][2] - events[i][2] >= JUMP_COOLDOWN

\* two jump events as close to each other as the cooldown allows
C1_Witness ==
    /\ Len(events) >= 2
    /\ events[2][2] - events[1][2] = JUMP_COOLDOWN + 1

\* C2: a poll emits a jump event iff the magnitude is above the threshold,
\* the detector is Idle and more than JUMP_COOLDOWN ms have passed since
\* last_jump_time; then the state becomes Active, the peak is the magnitude
\* and last_jump_time is the time of the poll.  No other step emits an event
\* or changes last_jump_time, and a magnitude below the threshold while Idle
\* leaves the detector Idle.
C2_TriggerIff ==
    [][ IF pc = "poll"
        THEN LET trig == /\ z' > JUMP_THRESHOLD
                         /\ ~is_jumping
                         /\ clock - last_jump_time > JUMP_COOLDOWN
             IN  /\ emitted' <=> trig
                 /\ Len(events') = Len(events) + (IF trig THEN 1 ELSE 0)
                 /\ trig => /\ is_jumping'
                            /\ peak_acceleration' = z'
                            /\ last_jump_time' = clock
                 /\ ~trig => last_jump_time' = last_jump_time
                 /\ (z' < JUMP_THRESHOLD /\ ~is_jumping) => ~is_jumping'
        ELSE /\ events' = events
             /\ last_jump_time' = last_jump_time
      ]_vars

\* a poll has just emitted an event, and it is not the first one
C2_Witness ==
    /\ pc = "map"
    /\ emitted
    /\ is_jumping
    /\ peak_acceleration = z
    /\ last_jump_time = clock
    /\ Len(events) = 2

\* the five samples of the scenario have been polled and handled, and the
\* cooldown had elapsed when the third was polled
ScenarioRun(n) ==
    /\ Len(poll_log) = n
    /\ pc = "delay"
    /\ n >= 3 => poll_log[3][2] > JUMP_COOLDOWN

\* C3, as claimed: the samples 50, 50, 120, 150, 60 yield exactly one jump
\* event, at the third sample, and the peak reported for it is 150.
C3_ReportedPeak150 ==
    ScenarioRun(5) =>
        /\ Len(events) = 1
        /\ events[1][1] = 3
        /\ reports # <<>>
        /\ Last(reports) = 150

\* C3, amended: the samples 50, 50, 120, 150, 60 yield exactly one jump
\* event, at the third sample, and the peak reported for it is 120, the
\* sample that triggered it; the stored peak reaches 150 only on the fourth
\* poll, after the report, and is 0 again after the fifth.
C3_ReportedPeak120 ==
    /\ ScenarioRun(4) =>
          /\ reports = <<120>>
          /\ peak_acceleration = 150
    /\ ScenarioRun(5) =>
          /\ Len(events) = 1
          /\ events[1][1] = 3
          /\ reports = <<120>>
          /\ peak_acceleration = 0
          /\ ~is_jumping

\* the scenario has run to its end with the cooldown elapsed
C3_Witness ==
    /\ ScenarioRun(5)
    /\ reports = <<120>>
    /\ poll_log[4][1] = 150
    /\ poll_log[5][1] = 60

\* C4, as claimed: while the state stays Active the stored peak never
\* decreases, and it is 0 right after the state returns to Idle.
C4_PeakNeverDecreases ==
    [][ /\ (is_jumping /\ is_jumping') =>
               peak_acceleration' >= peak_acceleration
        /\ (is_jumping /\ ~is_jumping') => peak_acceleration' = 0
      ]_vars

\* C4, amended: while the state stays Active the stored peak never decreases
\* except when update resets it to 0 right after the jump event, and it is 0
\* right after the state returns to Idle.
C4_PeakMonotoneAfterReset ==
    [][ /\ (is_jumping /\ is_jumping' /\ pc # "report") =>
               peak_acceleration' >= peak_acceleration
        /\ pc = "report" => (peak_acceleration' = 0 /\ is_jumping' = is_jumping)
        /\ (is_jumping /\ ~is_jumping') => peak_acceleration' = 0
      ]_vars

\* after the reset, still Active, the peak has grown again to a later sample
C4_Witness ==
    /\ is_jumping
    /\ reports = <<120>>
    /\ peak_acceleration = 150
    /\ pc = "delay"

\* the mapping C5 refers to: clamp, interpolate in the reals, round half up
ReferenceIndex(peak) ==
    LET c == IF peak < MIN_ACCELERATION THEN MIN_ACCELERATION
             ELSE IF peak > MAX_ACCELERATION THEN MAX_ACCELERATION ELSE peak
        num == (c - MIN_ACCELERATION) * (SCALE_SIZE - 1)
        den == MAX_ACCELERATION - MIN_ACCELERATION
    IN  (2 * num + den) \div (2 * den)

\* C5: for every peak, calculateScaleIndex(peak) is the clamped peak
\* interpolated in the reals onto 0 .. SCALE_SIZE-1 and rounded to the nearest
\* integer, halves up.
C5_RoundsToNearest ==
    scale_index # NoIndex => scale_index = ReferenceIndex(peak_acceleration)

\* C6: for every peak, calculateScaleIndex returns an index in
\* 0 .. SCALE_SIZE-1, so playSound called from update never takes its
\* invalid-index branch.
C6_IndexInRange ==
    /\ scale_index # NoIndex => scale_index \in 0 .. SCALE_SIZE - 1
    /\ other_index # NoIndex => other_index \in 0 .. SCALE_SIZE - 1
    /\ outcome # "InvalidIndex"
    /\ pc # "report"

\* the largest int16 peak has passed the validation of playSound
C6_Witness ==
    /\ pc = "parse"
    /\ peak_acceleration = INT16_MAX
    /\ scale_index = SCALE_SIZE - 1

\* C7: peak1 < peak2 implies
\* calculateScaleIndex(peak1) <= calculateScaleIndex(peak2).
C7_Monotonic ==
    (scale_index # NoIndex /\ peak_acceleration < other_peak) =>
        scale_index <= other_index

\* two neighbouring peaks that map to different indices
C7_Witness ==
    /\ scale_index # NoIndex
    /\ other_peak = peak_acceleration + 1
    /\ scale_index + 1 = other_index

\* C8: every peak at or below MIN_ACCELERATION maps to 0 and every peak at
\* or above MAX_ACCELERATION maps to SCALE_SIZE-1.
C8_Saturates ==
    /\ (scale_index # NoIndex /\ peak_acceleration <= MIN_ACCELERATION) =>
           scale_index = 0
    /\ (scale_index # NoIndex /\ peak_acceleration >= MAX_ACCELERATION) =>
           scale_index = SCALE_SIZE - 1
    /\ (other_index # NoIndex /\ other_peak <= MIN_ACCELERATION) =>
           other_index = 0
    /\ (other_index # NoIndex /\ other_peak >= MAX_ACCELERATION) =>
           other_index = SCALE_SIZE - 1

\* 80 and 400 have both been mapped
C8_Witness ==
    /\ peak_acceleration = MIN_ACCELERATION
    /\ scale_index = 0
    /\ other_peak = MAX_ACCELERATION
    /\ other_index = SCALE_SIZE - 1

\* C9: playSound with an index outside 0 .. SCALE_SIZE-1 ends with the
\* invalid-index outcome and has touched neither the storage nor the player.
C9_InvalidIndexTouchesNothing ==
    outcome = "InvalidIndex" =>
        /\ stolog = <<>>
        /\ written = <<>>
        /\ devlog = <<>>

\* C10: a playSound that reached the streaming loop has, when it returns,
\* called startPlayer exactly once, and ended with the outcome of the stream.
C10_StartPlayerOnce ==
    (pc = "report" /\ CountOf(stolog, "seek") > 0) =>
        /\ CountOf(devlog, "start") = 1
        /\ outcome \in {"Completed", "ReadError", "WriteError"}

\* the stopPlayer and startPlayer calls among the calls on the player
IsStopOrStart(op) == op \in {"stop", "start"}
StopStartCalls == SelectSeq(devlog, IsStopOrStart)

\* C11: when playSound returns from a call with a valid index, whatever the
\* return path, the last of its stopPlayer/startPlayer calls is startPlayer.
C11_LeftStarted ==
    (pc = "report" /\ ~InvalidIndex(scale_index)) =>
        /\ StopStartCalls # <<>>
        /\ Last(StopStartCalls) = "start"

\* playSound has returned after a parse failure, the path on which only the
\* reset has touched the player
C11_Witness ==
    /\ pc = "report"
    /\ outcome = "ParseError"
    /\ ~InvalidIndex(scale_index)
    /\ Last(devlog) = "start"

\* the chunks handed to writeFrames are consecutive pieces of the file from
\* the start of the payload on, and only the last may have failed
InOrderOnce(w) ==
    \A i \in DOMAIN w :
        /\ w[i][1] = (IF i = 1 THEN 0 ELSE w[i - 1][1] + w[i - 1][2])
        /\ w[i][2] > 0
        /\ i < Len(w) => w[i][3]

\* C12: once a writeFrames call has failed or a read has returned zero bytes
\* no further read and no further writeFrames call is made, and the chunks
\* handed to writeFrames are the file's chunks in order, each once.
C12_StopsAtFirstFailure ==
    [][ /\ outcome \in {"ReadError", "WriteError"} =>
               /\ written' = written
               /\ CountOf(stolog', "read") = CountOf(stolog, "read")
               /\ CountOf(devlog', "write") = CountOf(devlog, "write")
        /\ InOrderOnce(written')
        /\ CountOf(devlog', "write") = Len(written')
      ]_vars

\* playSound has returned after the third writeFrames call failed
C12_Witness ==
    /\ pc = "report"
    /\ outcome = "WriteError"
    /\ Len(written) = 3
    /\ ~written[3][3]

\* C14: after a parse failure or an open failure playSound has returned
\* without reading any payload and without any writeFrames call.
C14_SkippedOnAssetError ==
    outcome \in {"ParseError", "OpenError"} =>
        /\ pc = "report"
        /\ written = <<>>
        /\ CountOf(devlog, "write") = 0
        /\ CountOf(stolog, "read") = 0
        /\ CountOf(stolog, "seek") = 0

\* playSound has returned after sd.open failed
C14_Witness ==
    /\ pc = "report"
    /\ outcome = "OpenError"
    /\ stolog = <<"parse", "open">>

RECURSIVE SumSizes(_)
SumSizes(w) == IF w = <<>> THEN 0 ELSE w[1][2] + SumSizes(Tail(w))

\* C18: the bytes handed to writeFrames in one play invocation never exceed
\* the payload length data_size of the header.
C18_BytesWithinPayload ==
    SumSizes(written) <= data_size

\* C13: whatever happens inside playSound, it returns and update reaches its
\* delay, and the loop goes on polling: every run takes all MaxPolls polls.
C13_SensingContinues ==
    /\ (pc \in {"play", "parse", "open", "begin", "loop", "write", "finish"})
           ~> (pc = "delay")
    /\ <>(pc = "delay" /\ polls = MaxPolls)

\* a poll has been taken after the play invocation of the last jump event
\* returned and was reported
C13_Witness ==
    /\ events # <<>>
    /\ Len(reports) = Len(events)
    /\ polls > Last(events)[1]
    /\ pc = "delay"

Magnitude(r) == IF r < 0 THEN -r ELSE r

\* C17: for every raw reading r, the value detectJump compares and records is
\* |r|, never negative, and a reading with |r| above the threshold taken
\* while Idle and past the cooldown triggers an event.
C17_MagnitudeIsAbsolute ==
    [][ pc = "poll" =>
            /\ z' = Magnitude(raw')
            /\ z' >= 0
            /\ (/\ Magnitude(raw') > JUMP_THRESHOLD
                /\ ~is_jumping
                /\ clock - last_jump_time > JUMP_COOLDOWN) => emitted'
      ]_vars

C20_StartupWindow ==
    /\ [](clock <= JUMP_COOLDOWN => (events = <<>> /\ ~is_jumping /\ ~emitted))
    /\ [][ (/\ pc = "poll"
            /\ events = <<>>
            /\ clock > JUMP_COOLDOWN
            /\ z' > JUMP_THRESHOLD) => (emitted' /\ is_jumping')
         ]_vars

\* the third poll, the first one after the window, has emitted the first event
C20_Witness ==
    /\ pc = "map"
    /\ events = <<<<3, JUMP_COOLDOWN + 1>>>>
    /\ emitted
====
